---- MODULE Spec2Model ----
(***************************************************************************)
(* Kymograph.py: processImages walks a batch of images, partitions the     *)
(* shapes of every ROI into a map of lines and a map of polylines keyed by *)
(* timepoint, and builds one kymograph per ROI with linesKymograph or      *)
(* polyLineKymograph.  Each builder hands a plane generator (planeGen) to  *)
(* createImageFromNumpySeq, which pulls one plane per channel.             *)
(*                                                                         *)
(* A numpy 2-D array is a sequence of rows, each row a sequence of pixel   *)
(* values.  A python dict keyed by timepoint is a function whose domain is *)
(* the set of keys.                                                        *)
(***************************************************************************)
EXTENDS Integers, Sequences, FiniteSets, TLC

\* ------------------------------------------------------------------ bounds
MaxImages == 2       \* images in the batch
MaxRois == 1         \* ROIs returned for one image
MaxShapes == 2       \* shapes held by one ROI
MaxSizeT == 3        \* timepoints of an image
MaxSizeC == 2        \* channels of an image
MaxLineWidth == 2    \* Line_Width script parameter

\* python's None where an integer is expected (an unset rtype)
None == -1

\* ------------------------------------------------------------------ inputs
\* Line shapes as stored on the server: strip lengths 2 and 5, one drawn
\* right-to-left, and one horizontal line (y1 = y2).
LineGeoms ==
    { [theZ |-> 0, x1 |-> 1, y1 |-> 0, x2 |-> 2, y2 |-> 2],
      [theZ |-> 1, x1 |-> 3, y1 |-> 4, x2 |-> 0, y2 |-> 0],
      [theZ |-> 0, x1 |-> 0, y1 |-> 2, x2 |-> 4, y2 |-> 2] }

\* A points string, held as the list that string.strip().split("points")
\* returns: the text before the first "points" token, then the text after
\* each token.  The text of a bracketed list is the list of its x,y pairs.
\*   "points[0,0, 1,2]"
\*   "points[0,0, 3,4, 3,6] points1[9,9, 8,8]"
\*   "points[0,0, 2,0, 2,2]"     (first segment horizontal)
\*   ""                          (no "points" token)
PointsStrings ==
    { << <<>>, << <<0, 0>>, <<1, 2>> >> >>,
      << <<>>, << <<0, 0>>, <<3, 4>>, <<3, 6>> >>, << <<9, 9>>, <<8, 8>> >> >>,
      << <<>>, << <<0, 0>>, <<2, 0>>, <<2, 2>> >> >>,
      << <<>> >> }

\* the shapes roi.copyShapes() can hold for an image of nT timepoints
ShapeInputs(nT) ==
    [kind : {"Line"}, theT : (0 .. nT - 1) \cup {None}, geom : LineGeoms]
    \cup [kind : {"Polyline"}, theT : (0 .. nT - 1) \cup {None},
          theZ : {None}, points : PointsStrings]
    \cup [kind : {"None", "Rect"}, theT : {None}]

\* no shape visited yet
NoShape == [kind |-> "unset"]
\* no call of getLineData is being followed
NoCall == [lineW |-> 0]
NoTile == [fault |-> "unset"]

UseAllTimepointsInputs == {"absent", "True", "False"}

\* ------------------------------------------------------------------ numpy
EmptyMap == [t \in {} |-> 0]

\* dict[k] = v
Put(m, k, v) == [t \in (DOMAIN m) \cup {k} |-> IF t = k THEN v ELSE m[t]]

\* array.shape[1]
Width(a) == Len(a[1])

\* zeros((h, w))
zeros(h, w) == [r \in 1 .. h |-> [i \in 1 .. w |-> 0]]

\* hstack of two arrays of the same height
hstack2(a, b) == [r \in 1 .. Len(a) |-> a[r] \o b[r]]

RECURSIVE hstack(_)
\* hstack(list of arrays of the same height), list not empty
hstack(arrays) ==
    IF Len(arrays) = 1 THEN arrays[1]
    ELSE hstack2(arrays[1], hstack(Tail(arrays)))

RECURSIVE vstack(_)
\* vstack(list of arrays of the same width)
vstack(arrays) ==
    IF arrays = <<>> THEN <<>> ELSE arrays[1] \o vstack(Tail(arrays))

\* array[:, 0:n]
CropColumns(a, n) == [r \in 1 .. Len(a) |-> SubSeq(a[r], 1, n)]

\* int(math.sqrt(n)) for n >= 0
ISqrt(n) == CHOOSE r \in 0 .. n : r * r <= n /\ (r + 1) * (r + 1) > n

Max(S) == CHOOSE x \in S : \A y \in S : y <= x

\* The value the rotated and cropped strip holds at row r, column i: it is
\* decided by the plane (theC, theT) and the position, and is never 0 here,
\* so that sampled columns and zero padding can be told apart.
Pix(theC, theT, r, i) == 1000 * (theC + 1) + 100 * theT + 10 * r + i

\* ------------------------------------------------------------------ state
VARIABLES
    scriptParams,   \* Line_Width and Use_All_Timepoints ("absent" when not given)
    nImages,        \* images left by the ROI-count filter of processImages
    pc,             \* position of the script
    imgIdx,         \* index of the image the for loop is at (1-based)
    sizeT,          \* processImages: timepoints of the current image
    sizeC,          \* builder local: channels of the image
    nRois, roiIdx,  \* ROIs of result.rois and the one the loop is at
    nShapes,        \* shapes of the current ROI already visited
    s,              \* processImages: the shape the shapes loop is at
    lines,          \* processImages: map of theT: line
    polylines,      \* processImages: map of theT: polyline
    kind,           \* builder running or last run: "line", "polyline", "none"
    shapes,         \* the builder's map argument (lines or polylines)
    use_all_times,  \* builder local
    firstShape,     \* builder local (firstLine / firstShape)
    theC,           \* planeGen: channel the generator is at
    planes,         \* planes planeGen has yielded in this build
    tileLog,        \* getTile requests of this build, in order
    newImages,      \* kymographs derived from the current image
    newKymographs,  \* kymographs of the images already finished
    message,        \* processImages: message, a list of sentences
    errorLog,       \* number of logger.error calls
    fault,          \* exception that left processImages, or "none"
    outputs,        \* client.setOutput keys set by __main__
    lineCall,       \* getLineData: the arguments of a call and the image size
    tile            \* getLineData: its locals once the tile is padded

vars == << scriptParams, nImages, pc, imgIdx, sizeT, sizeC, nRois, roiIdx,
           nShapes, s, lines, polylines, kind, shapes, use_all_times, firstShape,
           theC, planes, tileLog, newImages, newKymographs, message, errorLog,
           fault, outputs, lineCall, tile >>

lineWidth == scriptParams.Line_Width

\* ------------------------------------------------------------ getLineData
\* Length of the strip: int(sqrt(lineX^2 + lineY^2)).
StripLength(x1, y1, x2, y2) ==
    ISqrt((x2 - x1) * (x2 - x1) + (y2 - y1) * (y2 - y1))

\* getLineData(pixels, x1, y1, x2, y2, lineW, theZ, theC, theT).  The division
\* float(lineX)/lineY comes first; then the tile is requested (remoteFails:
\* the pixel source fails this request); then the rotated image is cropped to
\* length x lineW.  "tiles" are the getTile requests the call made.
getLineData(x1, y1, x2, y2, lineW, theZ, z_theC, z_theT, remoteFails) ==
    LET request == [theZ |-> theZ, theC |-> z_theC, theT |-> z_theT,
                    x1 |-> x1, y1 |-> y1, x2 |-> x2, y2 |-> y2]
        length == StripLength(x1, y1, x2, y2)
    IN  IF y2 - y1 = 0
        THEN [fault |-> "ZeroDivisionError", tiles |-> <<>>, data |-> <<>>]
        ELSE IF remoteFails
        THEN [fault |-> "RemoteFailure", tiles |-> <<request>>, data |-> <<>>]
        ELSE [fault |-> "none", tiles |-> <<request>>,
              data |-> [r \in 1 .. lineW |->
                           [i \in 1 .. length |-> Pix(z_theC, z_theT, r, i)]]]

\* --------------------------------------------------- pointsStringToXYlist
\* pointLists = string.strip().split("points"); fewer than two pieces: the
\* error is logged and "" returned; otherwise the x,y pairs of pointLists[1].
pointsStringToXYlist(string) ==
    IF Len(string) < 2
    THEN [logged |-> 1, xyList |-> <<>>]
    ELSE [logged |-> 0, xyList |-> string[2]]

\* ------------------------------------------------------ builders' prologue
\* UseAllTimes without the rule for a single shape
UseAllTimesRequestedOnly(params, map) ==
    params.Use_All_Timepoints = "True"

\* use_all_times: requested as True, or the map holds exactly one shape.
UseAllTimes(params, map) ==
    (params.Use_All_Timepoints = "True") \/ Cardinality(DOMAIN map) = 1

\* FirstShape taking the last shape of the map
FirstShapeLast(map) ==
    map[CHOOSE t \in DOMAIN map : \A u \in DOMAIN map : t >= u]

\* first t in range(sizeT) with t in map
FirstShape(map) ==
    map[CHOOSE t \in DOMAIN map : \A u \in DOMAIN map : t <= u]

\* ------------------------------------------------ linesKymograph.planeGen
\* State of the loop over theT inside one channel.
LinesChannelStart ==
    [shape |-> firstShape, r_length |-> None, tRows |-> <<>>, log |-> <<>>,
     fault |-> "none"]

\* Reconcile that pads and never crops
ReconcilePadOnly(rowData, r_length) ==
    IF Width(rowData) < r_length
    THEN hstack2(rowData, zeros(Len(rowData), r_length - Width(rowData)))
    ELSE rowData

\* crop the row if it is too long, pad it if it is too short
Reconcile(rowData, r_length) ==
    IF Width(rowData) < r_length
    THEN hstack2(rowData, zeros(Len(rowData), r_length - Width(rowData)))
    ELSE IF Width(rowData) > r_length
    THEN CropColumns(rowData, r_length)
    ELSE rowData

\* ShapeAt going back to the first shape at every timepoint without one
ShapeAtFirstAgain(held, t) ==
    IF t \in DOMAIN shapes THEN shapes[t] ELSE firstShape

\* the shape the loop holds after looking at timepoint t
ShapeAt(held, t) == IF t \in DOMAIN shapes THEN shapes[t] ELSE held

\* does timepoint t get a row?
Emits(t) == t \in DOMAIN shapes \/ use_all_times

\* one pass of "for theT in range(sizeT)"
LinesBody(acc, z_theC, z_theT, failAt) ==
    LET shape == ShapeAt(acc.shape, z_theT) IN
    IF ~Emits(z_theT) THEN acc
    ELSE
      LET ld == getLineData(shape.x1, shape.y1, shape.x2, shape.y2, lineWidth,
                            shape.theZ, z_theC, z_theT,
                            Len(acc.log) + 1 = failAt)
      IN  IF ld.fault # "none"
          THEN [acc EXCEPT !.shape = shape, !.log = acc.log \o ld.tiles,
                           !.fault = ld.fault]
          ELSE
            LET r_length == IF acc.r_length = None THEN Width(ld.data)
                            ELSE acc.r_length
            IN  [acc EXCEPT !.shape = shape, !.r_length = r_length,
                     !.log = acc.log \o ld.tiles,
                     !.tRows = Append(acc.tRows, Reconcile(ld.data, r_length))]

RECURSIVE LinesLoop(_, _, _, _)
LinesLoop(acc, z_theC, t, failAt) ==
    IF t = sizeT \/ acc.fault # "none" THEN acc
    ELSE LinesLoop(LinesBody(acc, z_theC, t, failAt), z_theC, t + 1, failAt)

\* LinesChannel walking the channels from the last to the first
LinesChannelReversed(z_theC, failAt) ==
    LET acc == LinesLoop(LinesChannelStart, sizeC - 1 - z_theC, 0, failAt) IN
    IF acc.fault # "none"
    THEN [fault |-> acc.fault, log |-> acc.log, plane |-> <<>>]
    ELSE [fault |-> "none", log |-> acc.log, plane |-> vstack(acc.tRows)]

\* body of "for theC in range(sizeC)" up to the yield: the plane, the tile
\* requests made and the exception raised, if any
LinesChannel(z_theC, failAt) ==
    LET acc == LinesLoop(LinesChannelStart, z_theC, 0, failAt) IN
    IF acc.fault # "none"
    THEN [fault |-> acc.fault, log |-> acc.log, plane |-> <<>>]
    ELSE IF acc.tRows = <<>>
    THEN [fault |-> "ValueError", log |-> acc.log, plane |-> <<>>]
    ELSE [fault |-> "none", log |-> acc.log, plane |-> vstack(acc.tRows)]

\* --------------------------------------------- polyLineKymograph.planeGen
PolyChannelStart ==
    [shape |-> firstShape, tRows |-> <<>>, log |-> <<>>, fault |-> "none"]

RECURSIVE SegmentsLoop(_, _, _, _, _, _)
\* "for l in range(len(points)-1)": lineData grows by one strip per segment;
\* an exception of getLineData ends the loop
SegmentsLoop(seg, l, shape, z_theC, z_theT, failAt) ==
    IF l > Len(shape.points) - 1 \/ seg.fault # "none" THEN seg
    ELSE
      LET ld == getLineData(shape.points[l][1], shape.points[l][2],
                            shape.points[l + 1][1], shape.points[l + 1][2],
                            lineWidth, shape.theZ, z_theC, z_theT,
                            Len(seg.log) + 1 = failAt)
      IN  SegmentsLoop([lineData |-> IF ld.fault = "none"
                                     THEN Append(seg.lineData, ld.data)
                                     ELSE seg.lineData,
                        log |-> seg.log \o ld.tiles,
                        fault |-> ld.fault],
                       l + 1, shape, z_theC, z_theT, failAt)

\* one pass of "for theT in range(sizeT)"; hstack of an empty lineData
\* raises ValueError
PolyBody(acc, z_theC, z_theT, failAt) ==
    LET shape == ShapeAt(acc.shape, z_theT) IN
    IF ~Emits(z_theT) THEN acc
    ELSE
      LET seg == SegmentsLoop([lineData |-> <<>>, log |-> acc.log,
                               fault |-> "none"],
                              1, shape, z_theC, z_theT, failAt)
      IN  IF seg.fault # "none"
          THEN [acc EXCEPT !.shape = shape, !.log = seg.log,
                           !.fault = seg.fault]
          ELSE IF seg.lineData = <<>>
          THEN [acc EXCEPT !.shape = shape, !.log = seg.log,
                           !.fault = "ValueError"]
          ELSE [acc EXCEPT !.shape = shape, !.log = seg.log,
                    !.tRows = Append(acc.tRows, hstack(seg.lineData))]

RECURSIVE PolyLoop(_, _, _, _)
PolyLoop(acc, z_theC, t, failAt) ==
    IF t = sizeT \/ acc.fault # "none" THEN acc
    ELSE PolyLoop(PolyBody(acc, z_theC, t, failAt), z_theC, t + 1, failAt)

\* PadRows taking the first row's length as the length to reach
PadRowsToFirst(tRows) ==
    LET longest == Width(tRows[1]) IN
    [k \in 1 .. Len(tRows) |->
        IF Width(tRows[k]) < longest
        THEN hstack2(tRows[k], zeros(Len(tRows[k]), longest - Width(tRows[k])))
        ELSE tRows[k]]

\* pad the rows shorter than the longest one
PadRows(tRows) ==
    LET longest == Max({Width(tRows[k]) : k \in 1 .. Len(tRows)}) IN
    [k \in 1 .. Len(tRows) |->
        IF Width(tRows[k]) < longest
        THEN hstack2(tRows[k], zeros(Len(tRows[k]), longest - Width(tRows[k])))
        ELSE tRows[k]]

\* body of "for theC in range(sizeC)" up to the yield; max() of no row
\* raises ValueError
PolyChannel(z_theC, failAt) ==
    LET acc == PolyLoop(PolyChannelStart, z_theC, 0, failAt) IN
    IF acc.fault # "none"
    THEN [fault |-> acc.fault, log |-> acc.log, plane |-> <<>>]
    ELSE IF acc.tRows = <<>>
    THEN [fault |-> "ValueError", log |-> acc.log, plane |-> <<>>]
    ELSE [fault |-> "none", log |-> acc.log,
          plane |-> vstack(PadRows(acc.tRows))]

\* ---------------------------------------------------------------- actions
Init ==
    /\ scriptParams \in [Line_Width : 1 .. MaxLineWidth,
                         Use_All_Timepoints : UseAllTimepointsInputs]
    /\ nImages = 0
    /\ pc = "start"
    /\ imgIdx = 0
    /\ sizeT = 0 /\ sizeC = 0
    /\ nRois = 0 /\ roiIdx = 0
    /\ nShapes = 0
    /\ s = NoShape
    /\ lines = EmptyMap /\ polylines = EmptyMap
    /\ kind = "none"
    /\ shapes = EmptyMap
    /\ use_all_times = FALSE
    /\ firstShape = EmptyMap
    /\ theC = 0
    /\ planes = <<>>
    /\ tileLog = <<>>
    /\ newImages = <<>>
    /\ newKymographs = <<>>
    /\ message = <<>>
    /\ errorLog = 0
    /\ fault = "none"
    /\ outputs = {}
    /\ lineCall = NoCall /\ tile = NoTile

\* the locals of the ROI loop and of a builder, unset
NoRoiLocals ==
    /\ nShapes' = 0
    /\ s' = NoShape
    /\ lines' = EmptyMap /\ polylines' = EmptyMap
NoBuild ==
    /\ sizeC' = 0
    /\ kind' = "none"
    /\ shapes' = EmptyMap
    /\ use_all_times' = FALSE
    /\ firstShape' = EmptyMap
    /\ theC' = 0
    /\ planes' = <<>>
    /\ tileLog' = <<>>

\* an exception leaves processImages: nothing is returned, and the frames
\* of the generator, the builder and processImages are gone
Raise(exc) ==
    /\ fault' = exc
    /\ pc' = "raised"
    /\ NoRoiLocals
    /\ NoBuild
    /\ sizeT' = 0
    /\ nRois' = 0 /\ roiIdx' = 0

\* processImages: getObjects finds no image; return None, message
NoImages ==
    /\ pc = "start"
    /\ message' = Append(message, "logMessage")
    /\ pc' = "returned"
    /\ UNCHANGED << lineCall, tile, scriptParams, nImages, imgIdx, sizeT, sizeC, nRois, roiIdx,
                    nShapes, s, lines, polylines, kind, shapes, use_all_times,
                    firstShape, theC, planes, tileLog, newImages,
                    newKymographs, errorLog, fault, outputs >>

\* processImages: no image has a line or polyline ROI; return None, message
NoRoiImages ==
    /\ pc = "start"
    /\ message' = message \o << "logMessage",
                     "No ROI containing line or polyline was found." >>
    /\ pc' = "returned"
    /\ UNCHANGED << lineCall, tile, scriptParams, nImages, imgIdx, sizeT, sizeC, nRois, roiIdx,
                    nShapes, s, lines, polylines, kind, shapes, use_all_times,
                    firstShape, theC, planes, tileLog, newImages,
                    newKymographs, errorLog, fault, outputs >>

\* processImages: the images that have line or polyline ROIs
GetImages ==
    /\ pc = "start"
    /\ \E n \in 1 .. MaxImages : nImages' = n
    /\ message' = Append(message, "logMessage")
    /\ imgIdx' = 1
    /\ pc' = "images"
    /\ UNCHANGED << lineCall, tile, scriptParams, sizeT, sizeC, nRois, roiIdx, nShapes, s, lines,
                    polylines, kind, shapes, use_all_times, firstShape, theC,
                    planes, tileLog, newImages, newKymographs, errorLog,
                    fault, outputs >>

\* for image in images: the image has sizeT = 1; continue
NotAMovie ==
    /\ pc = "images" /\ imgIdx <= nImages
    /\ imgIdx' = imgIdx + 1
    /\ UNCHANGED << lineCall, tile, scriptParams, nImages, pc, sizeT, sizeC, nRois, roiIdx,
                    nShapes, s, lines, polylines, kind, shapes, use_all_times,
                    firstShape, theC, planes, tileLog, newImages,
                    newKymographs, message, errorLog, fault, outputs >>

\* for image in images: roiService.findByImage fails
RoiFetchFails ==
    /\ pc = "images" /\ imgIdx <= nImages
    /\ Raise("RemoteFailure")
    /\ newImages' = <<>>
    /\ UNCHANGED << lineCall, tile, scriptParams, nImages, imgIdx, newKymographs, message,
                    errorLog, outputs >>

\* for image in images: a movie, its ROIs are fetched
BeginImage ==
    /\ pc = "images" /\ imgIdx <= nImages
    /\ \E t \in 2 .. MaxSizeT, n \in 0 .. MaxRois :
          /\ sizeT' = t
          /\ nRois' = n
    /\ newImages' = <<>>
    /\ roiIdx' = 1
    /\ pc' = "rois"
    /\ UNCHANGED << lineCall, tile, scriptParams, nImages, imgIdx, sizeC, nShapes, s, lines,
                    polylines,
                    kind, shapes, use_all_times, firstShape, theC, planes,
                    tileLog, newKymographs, message, errorLog, fault, outputs >>

\* for roi in result.rois: lines = {}, polylines = {}
BeginRoi ==
    /\ pc = "rois" /\ roiIdx <= nRois
    /\ NoRoiLocals
    /\ pc' = "shapes"
    /\ UNCHANGED << lineCall, tile, scriptParams, nImages, imgIdx, sizeT, sizeC, nRois, roiIdx,
                    kind, shapes, use_all_times, firstShape, theC, planes,
                    tileLog, newImages, newKymographs, message, errorLog,
                    fault, outputs >>

\* theT = s.getTheT() and s.getTheT().getValue() or 0
Unwrap(v) == IF v = None THEN 0 ELSE v

\* lines[theT] = {...}
PutLine(map, shape) ==
    Put(map, Unwrap(shape.theT), shape.geom)

\* polylines[theT] = {'theZ': theZ, 'points': points}
PutPolyline(map, shape) ==
    Put(map, Unwrap(shape.theT),
        [theZ |-> Unwrap(shape.theZ),
         points |-> pointsStringToXYlist(shape.points).xyList])

\* for s in roi.copyShapes(): one shape
AddShape ==
    /\ pc = "shapes" /\ nShapes < MaxShapes
    /\ \E shape \in ShapeInputs(sizeT) :
          /\ s' = shape
          /\ lines' = IF shape.kind = "Line" THEN PutLine(lines, shape)
                      ELSE lines
          /\ polylines' = IF shape.kind = "Polyline"
                          THEN PutPolyline(polylines, shape)
                          ELSE polylines
          /\ errorLog' = IF shape.kind = "Polyline"
                         THEN errorLog
                              + pointsStringToXYlist(shape.points).logged
                         ELSE errorLog
    /\ nShapes' = nShapes + 1
    /\ UNCHANGED << lineCall, tile, scriptParams, nImages, pc, imgIdx, sizeT, sizeC, nRois,
                    roiIdx, kind, shapes, use_all_times, firstShape, theC,
                    planes, tileLog, newImages, newKymographs, message, fault,
                    outputs >>

\* Builder looking at the polylines first
BuilderPolylinesFirst(z_lines, z_polylines) ==
    IF Cardinality(DOMAIN z_polylines) > 0 THEN "polyline"
    ELSE IF Cardinality(DOMAIN z_lines) > 0 THEN "line"
    ELSE "none"

\* which builder the ROI gets
Builder(z_lines, z_polylines) ==
    IF Cardinality(DOMAIN z_lines) > 0 THEN "line"
    ELSE IF Cardinality(DOMAIN z_polylines) > 0 THEN "polyline"
    ELSE "none"

\* the builder is entered up to the call of createImageFromNumpySeq; the
\* loop variable s and the two maps of the ROI are not read again (the
\* builder holds its own reference to the map it was given)
StartBuild(z_kind, map) ==
    /\ NoRoiLocals
    /\ \E c \in 1 .. MaxSizeC : sizeC' = c
    /\ kind' = z_kind
    /\ shapes' = map
    /\ use_all_times' = UseAllTimes(scriptParams, map)
    /\ firstShape' = FirstShape(map)
    /\ theC' = 0
    /\ planes' = <<>>
    /\ tileLog' = <<>>
    /\ pc' = "gen"

\* if len(lines) > 0: linesKymograph(...)
StartLinesKymograph ==
    /\ pc = "shapes"
    /\ Builder(lines, polylines) = "line"
    /\ StartBuild("line", lines)
    /\ UNCHANGED << lineCall, tile, scriptParams, nImages, imgIdx, sizeT, nRois, roiIdx,
                    newImages, newKymographs, message, errorLog, fault,
                    outputs >>

\* elif len(polylines) > 0: polyLineKymograph(...)
StartPolyLineKymograph ==
    /\ pc = "shapes"
    /\ Builder(lines, polylines) = "polyline"
    /\ StartBuild("polyline", polylines)
    /\ UNCHANGED << lineCall, tile, scriptParams, nImages, imgIdx, sizeT, nRois, roiIdx,
                    newImages, newKymographs, message, errorLog, fault,
                    outputs >>

\* else: print "ROI: %s had no lines or polylines"; the maps are not read
\* again before the next ROI sets them
NoLinesOrPolylines ==
    /\ pc = "shapes"
    /\ Builder(lines, polylines) = "none"
    /\ NoRoiLocals
    /\ roiIdx' = roiIdx + 1
    /\ pc' = "rois"
    /\ UNCHANGED << lineCall, tile, scriptParams, nImages, imgIdx, sizeT, sizeC, nRois, kind,
                    shapes, use_all_times, firstShape, theC, planes, tileLog,
                    newImages, newKymographs, message, errorLog, fault,
                    outputs >>

\* the tile request, counted within the channel, that the pixel source
\* fails (0: none)
FailAtInputs == 0 .. MaxSizeT * 2

\* planeGen() of linesKymograph, one channel, up to the yield: no tile
\* request fails
LinesPlaneGenYield ==
    /\ pc = "gen" /\ kind = "line" /\ theC < sizeC
    /\ LET ch == LinesChannel(theC, 0) IN
          /\ ch.fault = "none"
          /\ planes' = Append(planes, ch.plane)
          /\ tileLog' = tileLog \o ch.log
    /\ theC' = theC + 1
    /\ UNCHANGED << lineCall, tile, scriptParams, nImages, pc, imgIdx, sizeT, sizeC, nRois,
                    roiIdx, nShapes, s, lines, polylines, kind, shapes,
                    use_all_times, firstShape, newImages, newKymographs,
                    message, errorLog, fault, outputs >>

\* planeGen() of linesKymograph, one channel: an exception leaves the
\* generator, createImageFromNumpySeq, linesKymograph and processImages
LinesPlaneGenRaise ==
    /\ pc = "gen" /\ kind = "line" /\ theC < sizeC
    /\ \E failAt \in FailAtInputs :
          LET ch == LinesChannel(theC, failAt) IN
          /\ ch.fault # "none"
          /\ Raise(ch.fault)
    /\ UNCHANGED << lineCall, tile, scriptParams, nImages, imgIdx, newImages, newKymographs,
                    message, errorLog, outputs >>

\* planeGen() of polyLineKymograph, one channel, up to the yield: no tile
\* request fails
PolyPlaneGenYield ==
    /\ pc = "gen" /\ kind = "polyline" /\ theC < sizeC
    /\ LET ch == PolyChannel(theC, 0) IN
          /\ ch.fault = "none"
          /\ planes' = Append(planes, ch.plane)
          /\ tileLog' = tileLog \o ch.log
    /\ theC' = theC + 1
    /\ UNCHANGED << lineCall, tile, scriptParams, nImages, pc, imgIdx, sizeT, sizeC, nRois,
                    roiIdx, nShapes, s, lines, polylines, kind, shapes,
                    use_all_times, firstShape, newImages, newKymographs,
                    message, errorLog, fault, outputs >>

\* planeGen() of polyLineKymograph, one channel: an exception leaves the
\* generator, createImageFromNumpySeq, polyLineKymograph and processImages
PolyPlaneGenRaise ==
    /\ pc = "gen" /\ kind = "polyline" /\ theC < sizeC
    /\ \E failAt \in FailAtInputs :
          LET ch == PolyChannel(theC, failAt) IN
          /\ ch.fault # "none"
          /\ Raise(ch.fault)
    /\ UNCHANGED << lineCall, tile, scriptParams, nImages, imgIdx, newImages, newKymographs,
                    message, errorLog, outputs >>

\* the generator is exhausted: createImageFromNumpySeq returns the new image,
\* newImages.append(newImg); the builder's frame is gone
CreateImage ==
    /\ pc = "gen" /\ theC = sizeC
    /\ newImages' = Append(newImages,
                           [image |-> imgIdx, roi |-> roiIdx, kind |-> kind])
    /\ NoBuild
    /\ roiIdx' = roiIdx + 1
    /\ pc' = "rois"
    /\ UNCHANGED << lineCall, tile, scriptParams, nImages, imgIdx, sizeT, nRois,
                    nShapes, s, lines, polylines, newKymographs, message,
                    errorLog, fault, outputs >>

\* after the ROI loop: channel names, colours and pixel sizes are saved on
\* the new images; newKymographs.extend(newImages)
FinishImage ==
    /\ pc = "rois" /\ roiIdx > nRois
    /\ newKymographs' = newKymographs \o newImages
    /\ imgIdx' = imgIdx + 1
    /\ sizeT' = 0
    /\ nRois' = 0 /\ roiIdx' = 0
    /\ pc' = "images"
    /\ UNCHANGED << lineCall, tile, scriptParams, nImages, sizeC, nShapes, s, lines, polylines, kind,
                    shapes, use_all_times, firstShape, theC, planes, tileLog,
                    newImages, message, errorLog, fault, outputs >>

\* the sentence processImages adds after the image loop
Summary(z_newKymographs, z_newImages) ==
    IF z_newKymographs = <<>>
    THEN << "No kymograph created. See 'Error' or 'Info' for details." >>
    ELSE IF Len(z_newImages) = 1 THEN << "New kymograph created" >>
    ELSE IF Len(z_newImages) > 1 THEN << "new kymographs created" >>
    ELSE <<>>

\* the image loop is over: return newKymographs, message
Return ==
    /\ pc = "images" /\ imgIdx > nImages
    /\ message' = message \o Summary(newKymographs, newImages)
    /\ pc' = "returned"
    /\ UNCHANGED << lineCall, tile, scriptParams, nImages, imgIdx, sizeT, sizeC, nRois, roiIdx,
                    nShapes, s, lines, polylines, kind, shapes, use_all_times,
                    firstShape, theC, planes, tileLog, newImages,
                    newKymographs, errorLog, fault, outputs >>

\* the outputs __main__ sets from (newImages, message)
Outputs(z_newImages) ==
    (IF Len(z_newImages) = 1 THEN {"New_Image"}
     ELSE IF Len(z_newImages) > 1 THEN {"First_Image"}
     ELSE {})
    \cup {"Message"}

\* __main__: processImages returned; outputs are set, the session closed
MainSetOutputs ==
    /\ pc = "returned"
    /\ outputs' = Outputs(newKymographs)
    /\ pc' = "closed"
    /\ UNCHANGED << lineCall, tile, scriptParams, nImages, imgIdx, sizeT, sizeC, nRois, roiIdx,
                    nShapes, s, lines, polylines, kind, shapes, use_all_times,
                    firstShape, theC, planes, tileLog, newImages,
                    newKymographs, message, errorLog, fault >>

\* __main__: processImages raised; finally: client.closeSession()
MainFinally ==
    /\ pc = "raised"
    /\ pc' = "closed"
    /\ UNCHANGED << lineCall, tile, scriptParams, nImages, imgIdx, sizeT, sizeC, nRois, roiIdx,
                    nShapes, s, lines, polylines, kind, shapes, use_all_times,
                    firstShape, theC, planes, tileLog, newImages,
                    newKymographs, message, errorLog, fault, outputs >>

Next ==
    \/ NoImages \/ NoRoiImages \/ GetImages
    \/ NotAMovie \/ RoiFetchFails \/ BeginImage
    \/ BeginRoi \/ AddShape
    \/ StartLinesKymograph \/ StartPolyLineKymograph \/ NoLinesOrPolylines
    \/ LinesPlaneGenYield \/ LinesPlaneGenRaise
    \/ PolyPlaneGenYield \/ PolyPlaneGenRaise
    \/ CreateImage \/ FinishImage \/ Return
    \/ MainSetOutputs \/ MainFinally

Spec == Init /\ [][Next]_vars

\* ------------------------------------------------------------- properties
Min(S) == CHOOSE x \in S : \A y \in S : x <= y

\* the k-th smallest element of S
Nth(S, k) == CHOOSE x \in S : Cardinality({y \in S : y < x}) = k - 1

\* the timepoints that get a row: those with a shape, or all of them when
\* Use_All_Timepoints was given as True or the schedule holds one shape
EmittedTimes ==
    {t \in 0 .. sizeT - 1 :
        \/ t \in DOMAIN shapes
        \/ scriptParams.Use_All_Timepoints = "True"
        \/ Cardinality(DOMAIN shapes) = 1}

\* the tile requests made for channel c at timepoint t, in order
Requests(c, t) ==
    LET Here(e) == e.theC = c /\ e.theT = t IN SelectSeq(tileLog, Here)

\* the tile requests that sampling shape sh for (c, t) makes
RequestsFor(sh, c, t) ==
    IF kind = "line"
    THEN << [theZ |-> sh.theZ, theC |-> c, theT |-> t, x1 |-> sh.x1,
             y1 |-> sh.y1, x2 |-> sh.x2, y2 |-> sh.y2] >>
    ELSE [l \in 1 .. Len(sh.points) - 1 |->
             [theZ |-> sh.theZ, theC |-> c, theT |-> t,
              x1 |-> sh.points[l][1], y1 |-> sh.points[l][2],
              x2 |-> sh.points[l + 1][1], y2 |-> sh.points[l + 1][2]]]

\* the schedule entry at the greatest scheduled timepoint <= t, or at the
\* lowest scheduled timepoint when there is none
ScheduledFor(t) ==
    LET before == {u \in DOMAIN shapes : u <= t} IN
    IF before # {} THEN shapes[Max(before)] ELSE shapes[Min(DOMAIN shapes)]

\* C1: a timepoint contributes a row to a channel's plane iff it has a shape
\* in the schedule, or Use_All_Timepoints is True, or the schedule holds
\* exactly one shape: every yielded plane is lineWidth rows per such
\* timepoint, block k sampled at the k-th such timepoint, and tiles are
\* requested for exactly these timepoints.
C1_RowsIffScheduledOrAll ==
    \A c \in 0 .. Len(planes) - 1 :
        LET plane == planes[c + 1]
            n == Cardinality(EmittedTimes)
        IN  /\ Len(plane) = n * lineWidth
            /\ \A k \in 1 .. n, r \in 1 .. lineWidth :
                  plane[(k - 1) * lineWidth + r][1]
                      = Pix(c, Nth(EmittedTimes, k), r, 1)
            /\ {t \in 0 .. sizeT - 1 : Requests(c, t) # <<>>} = EmittedTimes

\* shapes at more than one timepoint, not all timepoints, Use_All_Timepoints
\* not True: a plane was yielded with the unscheduled timepoints skipped
C1_Witness ==
    /\ planes # <<>>
    /\ Cardinality(DOMAIN shapes) > 1
    /\ scriptParams.Use_All_Timepoints = "False"
    /\ \E t \in 0 .. sizeT - 1 : t \notin DOMAIN shapes

\* a single shape and Use_All_Timepoints False: the plane holds sizeT rows
C1_WitnessSingle ==
    /\ planes # <<>>
    /\ Cardinality(DOMAIN shapes) = 1
    /\ scriptParams.Use_All_Timepoints = "False"
    /\ Len(planes[1]) = sizeT * lineWidth

\* C2: with use_all_timepoints true, for every channel and every timepoint
\* the row is sampled from the shape at the greatest scheduled timepoint
\* <= t, and from the shape at the lowest scheduled timepoint when there is
\* none; the same for every channel.
C2_CarryForwardSchedule ==
    (scriptParams.Use_All_Timepoints = "True"
        \/ Cardinality(DOMAIN shapes) = 1)
    => \A c \in 0 .. Len(planes) - 1, t \in 0 .. sizeT - 1 :
          Requests(c, t) = RequestsFor(ScheduledFor(t), c, t)

\* two planes yielded from two different shapes, with a timepoint after the
\* second shape that has none
C2_Witness ==
    /\ Len(planes) = 2
    /\ scriptParams.Use_All_Timepoints = "True"
    /\ \E u, v \in DOMAIN shapes :
          /\ u < v /\ shapes[u] # shapes[v]
          /\ \E t \in 0 .. sizeT - 1 : t > v /\ t \notin DOMAIN shapes

\* C10 as stated: with use_all_timepoints true, every timepoint without a
\* schedule entry is sampled with the canonical first shape.
C10_AlwaysFirstShape ==
    (scriptParams.Use_All_Timepoints = "True"
        \/ Cardinality(DOMAIN shapes) = 1)
    => \A c \in 0 .. Len(planes) - 1, t \in 0 .. sizeT - 1 :
          t \notin DOMAIN shapes
          => Requests(c, t)
                 = RequestsFor(shapes[Min(DOMAIN shapes)], c, t)

\* C10 amended: with use_all_timepoints true, a timepoint without a schedule
\* entry is sampled with the canonical first shape when no later entry
\* precedes it, that is when it lies before the second scheduled timepoint.
C10_FirstShapeUntilSecondEntry ==
    (scriptParams.Use_All_Timepoints = "True"
        \/ Cardinality(DOMAIN shapes) = 1)
    => \A c \in 0 .. Len(planes) - 1, t \in 0 .. sizeT - 1 :
          (t \notin DOMAIN shapes
              /\ \A u \in DOMAIN shapes : u < t => u = Min(DOMAIN shapes))
          => Requests(c, t)
                 = RequestsFor(shapes[Min(DOMAIN shapes)], c, t)

\* a plane was yielded with timepoint 0 unscheduled, sampled with the first
\* shape, which is not the only one
C10_Witness ==
    /\ planes # <<>>
    /\ scriptParams.Use_All_Timepoints = "True"
    /\ 0 \notin DOMAIN shapes
    /\ \E u, v \in DOMAIN shapes : u < v /\ shapes[u] # shapes[v]

\* row r of the block that the k-th emitted timepoint has in the plane of
\* channel c
PlaneRow(c, k, r) == planes[c + 1][(k - 1) * lineWidth + r]

\* length of the strip a tile request leads to
RequestLength(e) == StripLength(e.x1, e.y1, e.x2, e.y2)

\* C3: in linesKymograph every row of every plane has the reference length,
\* the strip length of the schedule entry at the lowest timepoint: it holds
\* the leftmost columns of its own strip, up to the reference length, and
\* zeros from the end of its own strip to the reference length.
C3_RowsHaveFirstShapeLength ==
    kind = "line"
    => LET first == shapes[Min(DOMAIN shapes)]
           ref == StripLength(first.x1, first.y1, first.x2, first.y2)
       IN  \A c \in 0 .. Len(planes) - 1 :
           \A k \in 1 .. Cardinality(EmittedTimes), r \in 1 .. lineWidth :
              LET t == Nth(EmittedTimes, k)
                  own == RequestLength(Requests(c, t)[1])
                  row == PlaneRow(c, k, r)
              IN  /\ Len(row) = ref
                  /\ \A i \in 1 .. ref :
                        row[i] = IF i <= own THEN Pix(c, t, r, i) ELSE 0

\* a line plane was yielded with a row cropped to the first shape's length
\* and the first shape's strip is not the longest
C3_Witness ==
    /\ kind = "line" /\ planes # <<>>
    /\ LET first == shapes[Min(DOMAIN shapes)] IN
       \E t \in EmittedTimes :
          RequestLength(Requests(0, t)[1])
              > StripLength(first.x1, first.y1, first.x2, first.y2)

\* a line plane was yielded with a row padded to the first shape's length
C3_WitnessPadded ==
    /\ kind = "line" /\ planes # <<>>
    /\ LET first == shapes[Min(DOMAIN shapes)] IN
       \E t \in EmittedTimes :
          RequestLength(Requests(0, t)[1])
              < StripLength(first.x1, first.y1, first.x2, first.y2)

RECURSIVE RawLength(_)
\* length of the row concatenated from the strips of the requests
RawLength(requests) ==
    IF requests = <<>> THEN 0
    ELSE RequestLength(requests[1]) + RawLength(Tail(requests))

RECURSIVE RawRow(_, _)
\* row r of the strips of the requests, side by side
RawRow(requests, r) ==
    IF requests = <<>> THEN <<>>
    ELSE [i \in 1 .. RequestLength(requests[1]) |->
             Pix(requests[1].theC, requests[1].theT, r, i)]
         \o RawRow(Tail(requests), r)

PixC(v) == (v \div 1000) - 1
PixT(v) == (v % 1000) \div 100

\* C5: the generator yields one plane per channel in the order 0..sizeC-1
\* and no more than sizeC; the rows of a plane are in ascending timepoint
\* order; the tiles are requested channel by channel, in ascending timepoint
\* order, and none for a channel whose predecessor's plane is not yielded.
C5_ChannelsThenTimepointsInOrder ==
    /\ Len(planes) = theC /\ theC <= sizeC
    /\ \A c \in 0 .. Len(planes) - 1 :
          LET plane == planes[c + 1] IN
          /\ \A j \in 1 .. Len(plane) : PixC(plane[j][1]) = c
          /\ \A j \in 1 .. Len(plane) - 1 :
                IF j % lineWidth = 0
                THEN PixT(plane[j][1]) < PixT(plane[j + 1][1])
                ELSE PixT(plane[j][1]) = PixT(plane[j + 1][1])
    /\ \A j \in 1 .. Len(tileLog) :
          /\ tileLog[j].theC < Len(planes)
          /\ j < Len(tileLog)
             => \/ tileLog[j].theC < tileLog[j + 1].theC
                \/ /\ tileLog[j].theC = tileLog[j + 1].theC
                   /\ tileLog[j].theT <= tileLog[j + 1].theT

\* the generator is exhausted after two planes of several timepoints
C5_Witness ==
    /\ pc = "gen" /\ sizeC = 2 /\ theC = sizeC
    /\ Len(planes) = 2
    /\ Cardinality(EmittedTimes) > 1

\* ------------------------------------------------- one build, on its own
\* The maps processImages can hand to a builder for an image of nT
\* timepoints: at most MaxShapes entries, each as PutLine / PutPolyline
\* store it.
LineMaps(nT) ==
    UNION { [D -> LineGeoms] :
              D \in {E \in SUBSET (0 .. nT - 1) :
                        Cardinality(E) \in 1 .. MaxShapes} }

PolylineMaps(nT) ==
    UNION { [D -> {[theZ |-> Unwrap(None),
                    points |-> pointsStringToXYlist(p).xyList] :
                      p \in PointsStrings}] :
              D \in {E \in SUBSET (0 .. nT - 1) :
                        Cardinality(E) \in 1 .. MaxShapes} }

\* how many of the polylines of a map were logged as unrecognised
Unrecognised(map) ==
    Cardinality({t \in DOMAIN map : map[t].points = <<>>})

\* linesKymograph or polyLineKymograph entered for the only ROI of the only
\* image of a batch, about to hand planeGen() to createImageFromNumpySeq
InitBuild ==
    /\ scriptParams \in [Line_Width : 1 .. MaxLineWidth,
                         Use_All_Timepoints : UseAllTimepointsInputs]
    /\ nImages = 1 /\ imgIdx = 1
    /\ nRois = 1 /\ roiIdx = 1
    /\ pc = "gen"
    /\ sizeT \in 2 .. MaxSizeT
    /\ sizeC \in 1 .. MaxSizeC
    /\ nShapes = 0
    /\ s = NoShape
    /\ lines = EmptyMap /\ polylines = EmptyMap
    /\ kind \in {"line", "polyline"}
    /\ shapes \in IF kind = "line" THEN LineMaps(sizeT)
                  ELSE PolylineMaps(sizeT)
    /\ use_all_times = UseAllTimes(scriptParams, shapes)
    /\ firstShape = FirstShape(shapes)
    /\ theC = 0
    /\ planes = <<>>
    /\ tileLog = <<>>
    /\ newImages = <<>>
    /\ newKymographs = <<>>
    /\ message = << "logMessage" >>
    /\ errorLog = IF kind = "line" THEN 0 ELSE Unrecognised(shapes)
    /\ fault = "none"
    /\ outputs = {}
    /\ lineCall = NoCall /\ tile = NoTile

NextBuild ==
    \/ LinesPlaneGenYield \/ LinesPlaneGenRaise
    \/ PolyPlaneGenYield \/ PolyPlaneGenRaise
    \/ CreateImage

SpecBuild == InitBuild /\ [][NextBuild]_vars

\* --------------------------------------------------- one ROI, on its own
\* processImages at "for roi in result.rois", at the only ROI of the only
\* image of a batch: lines = {} and polylines = {} were just set
InitRoi ==
    /\ scriptParams \in [Line_Width : 1 .. MaxLineWidth,
                         Use_All_Timepoints : UseAllTimepointsInputs]
    /\ nImages = 1 /\ imgIdx = 1
    /\ nRois = 1 /\ roiIdx = 1
    /\ pc = "shapes"
    /\ sizeT \in 2 .. MaxSizeT
    /\ sizeC = 0
    /\ nShapes = 0
    /\ s = NoShape
    /\ lines = EmptyMap /\ polylines = EmptyMap
    /\ kind = "none"
    /\ shapes = EmptyMap
    /\ use_all_times = FALSE
    /\ firstShape = EmptyMap
    /\ theC = 0
    /\ planes = <<>>
    /\ tileLog = <<>>
    /\ newImages = <<>>
    /\ newKymographs = <<>>
    /\ message = << "logMessage" >>
    /\ errorLog = 0
    /\ fault = "none"
    /\ outputs = {}
    /\ lineCall = NoCall /\ tile = NoTile

NextRoi ==
    \/ AddShape
    \/ StartLinesKymograph \/ StartPolyLineKymograph \/ NoLinesOrPolylines
    \/ LinesPlaneGenYield \/ LinesPlaneGenRaise
    \/ PolyPlaneGenYield \/ PolyPlaneGenRaise
    \/ CreateImage

SpecRoi == InitRoi /\ [][NextRoi]_vars

\* C6: sampling a segment with y1 = y2 raises no arithmetic fault: no
\* ZeroDivisionError leaves linesKymograph or polyLineKymograph.
C6_NoDivisionFault ==
    fault # "ZeroDivisionError"

\* C7: a polyline whose points string has no "points" token is logged and
\* treated as absent: after such a string was logged, no build fails on the
\* entry it left (hstack of no strip raises ValueError) and the image is not
\* aborted.
C7_MalformedPolylineIsAbsent ==
    errorLog > 0 => fault # "ValueError"

\* C8: a failure while one image is processed ends that image only: the
\* script never ends with a later image of the batch not attempted, and the
\* kymographs created for earlier images are returned with a message.
C8_FailureEndsOneImageOnly ==
    pc = "closed"
    => /\ ~(imgIdx < nImages)
       /\ newKymographs # <<>>
          => /\ "Message" \in outputs
             /\ outputs \cap {"New_Image", "First_Image"} # {}

\* the shapes of the kinds Line and Polyline the current ROI has shown so far
SeenLine == DOMAIN lines # {}
SeenPolyline == DOMAIN polylines # {}

\* C9: for every ROI at most one kymograph is built: from the lines when the
\* ROI has a Line shape (the polylines are then not used), from the polylines
\* when it has no Line shape and a Polyline shape, none when it has neither;
\* within each map the shape visited last at a timepoint is the one held.
C9_OneKymographPerRoi ==
    [][ /\ (pc = "shapes" /\ pc' = "gen")
           => /\ SeenLine \/ SeenPolyline
              /\ kind' = IF SeenLine THEN "line" ELSE "polyline"
              /\ shapes' = IF SeenLine THEN lines ELSE polylines
        /\ (pc = "shapes" /\ pc' = "rois")
           => /\ ~SeenLine /\ ~SeenPolyline
              /\ newImages' = newImages
        /\ (pc = "shapes" /\ (SeenLine \/ SeenPolyline))
           => pc' \in {"shapes", "gen"}
        /\ (newImages' # newImages /\ newImages' # <<>>)
           => /\ pc = "gen" /\ theC = sizeC
              /\ newImages' = Append(newImages, [image |-> imgIdx,
                                                 roi |-> roiIdx,
                                                 kind |-> kind])
              /\ roiIdx' = roiIdx + 1
        /\ \A i, j \in 1 .. Len(newImages') :
              newImages'[i].roi = newImages'[j].roi => i = j
        /\ (pc' = "shapes" /\ s'.kind = "Line")
           => lines'[Unwrap(s'.theT)] = s'.geom
        /\ (pc' = "shapes" /\ s'.kind = "Polyline")
           => polylines'[Unwrap(s'.theT)].points
                  = pointsStringToXYlist(s'.points).xyList
      ]_vars

\* the ROI held a Line shape and a Polyline shape (one whose points string
\* was logged as unrecognised): the line kymograph was built, and only it
C9_Witness ==
    /\ pc = "rois" /\ roiIdx = 2
    /\ errorLog > 0
    /\ Len(newImages) = 1 /\ newImages[1].kind = "line"

\* --------------------------------------------- getLineData: the tile request
\* largest image side, and how far outside the image an endpoint may lie
MaxImageSize == 2
Margin == 2

Abs(a) == IF a < 0 THEN -a ELSE a

\* abs(math.sin(rads) * lineW) and abs(math.cos(rads) * lineW) with
\* rads = math.atan(float(lineX)/lineY) are |lineX|*lineW/L and
\* |lineY|*lineW/L, L = sqrt(lineX^2 + lineY^2).  A value num/(den*L) is
\* kept as the two integers around it: the largest k with k*den*L <= num
\* and the smallest k with k*den*L >= num.
FloorOf(num, den, L2) ==
    CHOOSE k \in 0 .. num :
        /\ (k * den) * (k * den) * L2 <= num * num
        /\ \A j \in 0 .. num :
              (j * den) * (j * den) * L2 <= num * num => j <= k
CeilOf(num, den, L2) ==
    CHOOSE k \in 0 .. num :
        /\ (k * den) * (k * den) * L2 >= num * num
        /\ \A j \in 0 .. num :
              (j * den) * (j * den) * L2 >= num * num => j >= k

\* int(m + num/(den*L)) and int(m - num/(den*L)): int() drops the fraction,
\* towards zero
IntPlus(m, num, den, L2) ==
    IF m + FloorOf(num, den, L2) >= 0
    THEN m + FloorOf(num, den, L2)
    ELSE m + CeilOf(num, den, L2)
IntMinus(m, num, den, L2) ==
    IF m - CeilOf(num, den, L2) >= 0
    THEN m - CeilOf(num, den, L2)
    ELSE m - FloorOf(num, den, L2)

\* getLineData, from the division to the tile: the rectangle around the
\* line, what of it lies outside the image, and the tile (x, y, w, h)
TileRequest(x1, y1, x2, y2, lineW, sizeX, sizeY) ==
    LET lineX == x2 - x1
        lineY == y2 - y1
        L2 == lineX * lineX + lineY * lineY
        \* extraH/2 = |lineX|*lineW/(2L), extraW = |lineY|*lineW/L
        bottom == IntPlus(Max({y1, y2}), Abs(lineX) * lineW, 2, L2)
        top == IntMinus(Min({y1, y2}), Abs(lineX) * lineW, 2, L2)
        left == IntMinus(Min({x1, x2}), Abs(lineY) * lineW, 1, L2)
        right == IntPlus(Max({x1, x2}), Abs(lineY) * lineW, 1, L2)
        pad_left == IF left < 0 THEN Abs(left) ELSE 0
        left_c == IF left < 0 THEN 0 ELSE left
        pad_top == IF top < 0 THEN Abs(top) ELSE 0
        top_c == IF top < 0 THEN 0 ELSE top
        pad_right == IF right > sizeX THEN right - sizeX ELSE 0
        right_c == IF right > sizeX THEN sizeX ELSE right
        pad_bottom == IF bottom > sizeY THEN bottom - sizeY ELSE 0
        bottom_c == IF bottom > sizeY THEN sizeY ELSE bottom
    IN  [left |-> left, right |-> right, top |-> top, bottom |-> bottom,
         pad_left |-> pad_left, pad_right |-> pad_right,
         pad_top |-> pad_top, pad_bottom |-> pad_bottom,
         x |-> left_c, y |-> top_c,
         w |-> right_c - left_c, h |-> bottom_c - top_c]

\* the tile is a rectangle of the image
InsideImage(rq, sizeX, sizeY) ==
    /\ rq.x >= 0 /\ rq.y >= 0 /\ rq.w >= 0 /\ rq.h >= 0
    /\ rq.x + rq.w <= sizeX /\ rq.y + rq.h <= sizeY

\* plane.shape as pixels.getTile returns it: h rows of w pixels for a
\* rectangle of the image; for any other request what comes back is the
\* pixel source's choice, some plane no larger than the image
getTileShapes(rq, sizeX, sizeY) ==
    IF InsideImage(rq, sizeX, sizeY)
    THEN {[data_h |-> rq.h, data_w |-> rq.w]}
    ELSE [data_h : 0 .. sizeY, data_w : 0 .. sizeX]

\* plane.shape after the four paddings: hstack on the left and on the
\* right, vstack on top and at the bottom, each only when its pad is > 0
PaddedShape(shape, rq) ==
    LET afterLeft == IF rq.pad_left > 0
                     THEN [shape EXCEPT !.data_w = rq.pad_left + @]
                     ELSE shape
        afterRight == IF rq.pad_right > 0
                      THEN [afterLeft EXCEPT !.data_w = @ + rq.pad_right]
                      ELSE afterLeft
        afterTop == IF rq.pad_top > 0
                    THEN [afterRight EXCEPT !.data_h = rq.pad_top + @]
                    ELSE afterRight
    IN  IF rq.pad_bottom > 0
        THEN [afterTop EXCEPT !.data_h = @ + rq.pad_bottom]
        ELSE afterTop

\* the endpoints of a line or of a polyline segment: whole pixels inside
\* the image, on its border or up to Margin outside it
CallInputs ==
    [x1 : -Margin .. MaxImageSize + Margin,
     y1 : -Margin .. MaxImageSize + Margin,
     x2 : -Margin .. MaxImageSize + Margin,
     y2 : -Margin .. MaxImageSize + Margin,
     lineW : 1 .. MaxLineWidth,
     sizeX : 1 .. MaxImageSize,
     sizeY : 1 .. MaxImageSize]

\* one call of getLineData is followed: its arguments, lineW being the
\* script's Line_Width, and the size of the image
InitTile ==
    /\ scriptParams \in [Line_Width : 1 .. MaxLineWidth,
                         Use_All_Timepoints : {"absent"}]
    /\ lineCall \in {c \in CallInputs : c.lineW = scriptParams.Line_Width}
    /\ tile = NoTile
    /\ pc = "tile"
    /\ nImages = 0 /\ imgIdx = 0
    /\ sizeT = 0 /\ sizeC = 0
    /\ nRois = 0 /\ roiIdx = 0
    /\ nShapes = 0
    /\ s = NoShape
    /\ lines = EmptyMap /\ polylines = EmptyMap
    /\ kind = "none"
    /\ shapes = EmptyMap
    /\ use_all_times = FALSE
    /\ firstShape = EmptyMap
    /\ theC = 0
    /\ planes = <<>>
    /\ tileLog = <<>>
    /\ newImages = <<>>
    /\ newKymographs = <<>>
    /\ message = <<>>
    /\ errorLog = 0
    /\ fault = "none"
    /\ outputs = {}

TileOf(c) == TileRequest(c.x1, c.y1, c.x2, c.y2, c.lineW, c.sizeX, c.sizeY)

TileFrame ==
    UNCHANGED << lineCall, scriptParams, nImages, imgIdx, sizeT, sizeC, nRois,
                 roiIdx, nShapes, s, lines, polylines, kind, shapes,
                 use_all_times, firstShape, theC, planes, tileLog, newImages,
                 newKymographs, message, errorLog, fault, outputs >>

\* float(lineX)/lineY with lineY = 0: no tile is requested
TileDivisionRaises ==
    /\ pc = "tile"
    /\ lineCall.y2 - lineCall.y1 = 0
    /\ tile' = [fault |-> "ZeroDivisionError"]
    /\ pc' = "tiled"
    /\ TileFrame

\* pixels.getTile(theZ, theC, theT, tile) fails
TileGetTileRaises ==
    /\ pc = "tile"
    /\ lineCall.y2 - lineCall.y1 # 0
    /\ tile' = [fault |-> "RemoteFailure", request |-> TileOf(lineCall)]
    /\ pc' = "tiled"
    /\ TileFrame

\* pixels.getTile answers and the plane is padded
TilePadded ==
    /\ pc = "tile"
    /\ lineCall.y2 - lineCall.y1 # 0
    /\ \E shape \in getTileShapes(TileOf(lineCall), lineCall.sizeX,
                                  lineCall.sizeY) :
          tile' = [fault |-> "none", request |-> TileOf(lineCall),
                   shape |-> PaddedShape(shape, TileOf(lineCall))]
    /\ pc' = "tiled"
    /\ TileFrame

NextTile ==
    \/ TileDivisionRaises
    \/ TileGetTileRaises
    \/ TilePadded

SpecTile == InitTile /\ [][NextTile]_vars

\* C11: for endpoints with a nonzero vertical delta, inside the image,
\* partly outside or fully outside it, and a width of at least 1, the tile
\* (x, y, w, h) passed to getTile is a rectangle of the image (x >= 0,
\* y >= 0, w >= 0, h >= 0, x + w <= sizeX, y + h <= sizeY), and the plane
\* after zero-padding has the size of the un-clipped rectangle.
C11_TileInsideImageAndPaddedToRectangle ==
    (pc = "tiled" /\ tile.fault # "ZeroDivisionError")
    => /\ lineCall.lineW >= 1
       /\ InsideImage(tile.request, lineCall.sizeX, lineCall.sizeY)
       /\ tile.fault = "none"
          => /\ tile.shape.data_w = tile.request.right - tile.request.left
             /\ tile.shape.data_h = tile.request.bottom - tile.request.top

====
